---- MODULE Spec2Model ----
(***************************************************************************)
(* The tree-walking evaluator of dmm (src/src/interpreter.rs) and its      *)
(* fatigue gate, the Worker (src/src/humanoid.rs), as a state machine.     *)
(*                                                                         *)
(* Interpreter::visit is recursive; the model keeps the pending visits in  *)
(* kont (the Rust stack: one frame per visit that waits for a child) and   *)
(* the position of the running visit in pc:                                *)
(*   "start"  the interpreter is constructed, interpret() not yet called   *)
(*   "eval"   visit(node) is entered                                       *)
(*   "gate"   the match arm of node has produced result; worker.call is    *)
(*            about to run (interpreter.rs:263)                            *)
(*   "ask"    the worker is blocked in read_value(">>") (humanoid.rs:124)  *)
(*   "check"  user_answer is set, the comparison is next (humanoid.rs:126) *)
(*   "input"  the input call is blocked in read_value (interpreter.rs:214) *)
(*   "ret"    the visit of node has returned `returned` to its caller      *)
(*   "done"   interpret() has returned                                     *)
(*   "panic"  a panic! has ended the process                               *)
(* Text is a sequence of character codes, so that Display and the          *)
(* ordering of strings are computed, not assumed.                          *)
(***************************************************************************)
EXTENDS Integers, Sequences, FiniteSets, TLC

VARIABLES
    program,           \* index of the parsed program (self.parser.parse())
    strict_work,       \* Worker.strict_work
    pc,                \* position of the running visit (see above)
    node,              \* the node of the running (or just returned) visit
    result,            \* the local `result` of visit (a Value)
    returned,          \* the Result the last visit returned
    kont,              \* the pending visits, innermost first
    call_stack,        \* Interpreter.call_stack, root frame first
    stress_level,      \* Worker.stress_level
    prev_mood,         \* Worker.prev_mood
    cooldown,          \* Worker.cooldown (nanoseconds)
    elapsed,           \* Worker.question_cooldown.elapsed(), as last read
    user_answer,       \* Worker.user_answer
    typed,             \* the line read_value has read for the comparison at hand
    out,               \* the calls made to Shouter::shout, in order
    report,            \* what interpret() printed at the end
    input_log,         \* the values the input calls have read, in order
    ncomplete,         \* history: visits that returned Ok
    nincs,             \* history: increments of stress_level
    phase,             \* 1: first run; 2: the same program run again
    strict_outcome,    \* the outcome of the first run (second run only)
    lexer,             \* Lexer: text (char codes) and position
    lexed,             \* the Result the last get_next_token returned
    parser,            \* Parser: current_token and the locals of statement()
    parsed             \* the Result statement() returned

vars == <<program, strict_work, pc, node, result, returned, kont, call_stack,
          stress_level, prev_mood, cooldown, elapsed, user_answer, typed, out,
          report, input_log, ncomplete, nincs, phase, strict_outcome,
          lexer, lexed, parser, parsed>>

\* the tokenizer and the parser; a run of the interpreter starts from the
\* tree of Programs, and leaves them alone
frontVars == <<lexer, lexed, parser, parsed>>
FrontUnused ==
    /\ lexer = [text |-> <<>>, position |-> 0]
    /\ lexed = [tag |-> "none"]
    /\ parser = [at |-> "unused"]
    /\ parsed = [tag |-> "none"]

--------------------------------------------------------------------------
(* Bounds of the model.                                                    *)

\* iterations of the counting loop of the loop program
LoopCount == 2
\* depth of the recursion of the recursive program
RecDepth == 2

--------------------------------------------------------------------------
(* Value (parser.rs:5-11) and its Display (parser.rs:20-37).               *)

IntV(n) == [t |-> "Integer", i |-> n, s |-> <<>>, b |-> FALSE]
StrV(x) == [t |-> "String", i |-> 0, s |-> x, b |-> FALSE]
BoolV(x) == [t |-> "Boolean", i |-> 0, s |-> <<>>, b |-> x]
NoneV == [t |-> "None", i |-> 0, s |-> <<>>, b |-> FALSE]

\* Option<Value>::None of Worker.user_answer
NoAnswer == [t |-> "absent", i |-> 0, s |-> <<>>, b |-> FALSE]

RECURSIVE Digits(_)
Digits(n) == IF n < 10 THEN <<48 + n>> ELSE Digits(n \div 10) \o <<48 + (n % 10)>>

Display(v) ==
    CASE v.t = "Integer" -> IF v.i < 0 THEN <<45>> \o Digits(-v.i) ELSE Digits(v.i)
      [] v.t = "String" -> v.s
      [] v.t = "Boolean" -> IF v.b THEN <<58, 41>> ELSE <<58, 40>>
      [] OTHER -> <<45>>

--------------------------------------------------------------------------
(* ASTNode (parser.rs:40-90).                                              *)

Val(v) == [type |-> "Value", value |-> v]
Var(n) == [type |-> "Variable", name |-> n]
Bin(tok, l, r) == [type |-> "BinOp", left |-> l, right |-> r, token |-> tok]
Un(tok, e) == [type |-> "UnaryOp", expression |-> e, token |-> tok]
Asg(n, e) == [type |-> "Assign", left |-> Var(n), right |-> e]
IfN(c, e) == [type |-> "If", condition |-> c, execution |-> e]
LoopN(c, e) == [type |-> "Loop", condition |-> c, execution |-> e]
Cmp(ct, l, r) == [type |-> "Compare", left |-> l, right |-> r, compare_type |-> ct]
Blk(cs) == [type |-> "Block", children |-> cs]
Ret(e) == [type |-> "Return", expression |-> e]
Call(n, ps) == [type |-> "FunctionCall", function |-> Var(n), parameters |-> ps]
Decl(n, ps, body) ==
    [type |-> "FunctionDeclaration", name |-> n, parameters |-> ps,
     execution_block |-> body]
NoOp == [type |-> "NoOp"]

--------------------------------------------------------------------------
(* The programs of the model, as the parser builds them (parser.rs:281-    *)
(* 399).  A block whose `avo` is followed by a line break starts with a    *)
(* NoOp child (statement_list keeps its first statement, parser.rs:357).   *)

\* funny h() avo c = 1 cado
\* h()
\* a = 1 + 2
\* :O__(a, -a)
ProgArith ==
    Blk(<<Decl("h", <<>>, Blk(<<Asg("c", Val(IntV(1)))>>)),
          Call("h", <<>>),
          Asg("a", Bin("Plus", Val(IntV(1)), Val(IntV(2)))),
          Call(":O__", <<Var("a"), Un("Minus", Var("a"))>>)>>)

\* funny g(x) avo wenn x is 0 avo wirf 7
\* cado
\* wirf x
\* cado
\* funny f(x) avo y = g(x)
\* wirf y
\* y = 5
\* cado
\* b = f(0)
\* :O___(b)
ProgReturn ==
    Blk(<<Decl("g", <<"x">>,
               Blk(<<IfN(Cmp("Equals", Var("x"), Val(IntV(0))),
                         Blk(<<Ret(Val(IntV(7)))>>)),
                     Ret(Var("x"))>>)),
          Decl("f", <<"x">>,
               Blk(<<Asg("y", Call("g", <<Var("x")>>)),
                     Ret(Var("y")),
                     Asg("y", Val(IntV(5)))>>)),
          Asg("b", Call("f", <<Val(IntV(0))>>)),
          Call(":O___", <<Var("b")>>)>>)

\* a = 1
\* wirf a
\* a = 2
ProgTopReturn ==
    Blk(<<Asg("a", Val(IntV(1))), Ret(Var("a")), Asg("a", Val(IntV(2)))>>)

\* i = 0
\* schleif i kleina <LoopCount> avo i = i + 1
\* cado
ProgLoop ==
    Blk(<<Asg("i", Val(IntV(0))),
          LoopN(Cmp("Less", Var("i"), Val(IntV(LoopCount))),
                Blk(<<Asg("i", Bin("Plus", Var("i"), Val(IntV(1))))>>))>>)

\* funny r(n) avo
\* schleif n is 0 avo wirf 0
\* cado
\* wirf r(n - 1)
\* cado
\* c = r(<RecDepth>)
ProgRec ==
    Blk(<<Decl("r", <<"n">>,
               Blk(<<NoOp,
                     LoopN(Cmp("Equals", Var("n"), Val(IntV(0))),
                           Blk(<<Ret(Val(IntV(0)))>>)),
                     Ret(Call("r", <<Bin("Minus", Var("n"), Val(IntV(1)))>>))>>)),
          Asg("c", Call("r", <<Val(IntV(RecDepth))>>))>>)

\* x = d;D(<n>)
\* wenn x avo :O__(x) cado
\* y = -x
ProgInput ==
    Blk(<<Asg("x", Call("d;D", <<Val(StrV(<<110>>))>>)),
          IfN(Var("x"), Blk(<<Call(":O__", <<Var("x")>>)>>)),
          Asg("y", Un("Minus", Var("x")))>>)

\* x = d;D(<n>)
\* schleif x kleina <LoopCount> avo x = x + 1
\* cado
\* schleif x avo x = 0
\* cado
\* z = x is 0
ProgCond ==
    Blk(<<Asg("x", Call("d;D", <<Val(StrV(<<110>>))>>)),
          LoopN(Cmp("Less", Var("x"), Val(IntV(LoopCount))),
                Blk(<<Asg("x", Bin("Plus", Var("x"), Val(IntV(1))))>>)),
          LoopN(Var("x"), Blk(<<Asg("x", Val(IntV(0)))>>)),
          Asg("z", Cmp("Equals", Var("x"), Val(IntV(0))))>>)

\* funny k(a b) avo wirf a - b
\* cado
\* p = 5
\* q = k(p, p + 1)
\* k(1, 2, 3)
ProgArgs ==
    Blk(<<Decl("k", <<"a", "b">>,
               Blk(<<Ret(Bin("Minus", Var("a"), Var("b")))>>)),
          Asg("p", Val(IntV(5))),
          Asg("q", Call("k", <<Var("p"), Bin("Plus", Var("p"), Val(IntV(1)))>>)),
          Call("k", <<Val(IntV(1)), Val(IntV(2)), Val(IntV(3))>>)>>)

\* funny o() avo funny n() avo cado
\* n()
\* cado
\* funny h() avo funny h() avo cado
\* cado
\* o()
\* x = d;D(<n>)
\* wenn x is 3 avo h()
\* cado
\* funny o() avo cado
ProgDecl ==
    Blk(<<Decl("o", <<>>, Blk(<<Decl("n", <<>>, Blk(<<NoOp>>)),
                                Call("n", <<>>)>>)),
          Decl("h", <<>>, Blk(<<Decl("h", <<>>, Blk(<<NoOp>>))>>)),
          Call("o", <<>>),
          Asg("x", Call("d;D", <<Val(StrV(<<110>>))>>)),
          IfN(Cmp("Equals", Var("x"), Val(IntV(3))), Blk(<<Call("h", <<>>)>>)),
          Decl("o", <<>>, Blk(<<NoOp>>))>>)

\* funny g(a) avo v = a + 1
\* u = 9
\* wirf v cado
\* funny r() avo wirf u cado
\* u = 1
\* w = g(u)
\* r()
ProgFrames ==
    Blk(<<Decl("g", <<"a">>,
               Blk(<<Asg("v", Bin("Plus", Var("a"), Val(IntV(1)))),
                     Asg("u", Val(IntV(9))),
                     Ret(Var("v"))>>)),
          Decl("r", <<>>, Blk(<<Ret(Var("u"))>>)),
          Asg("u", Val(IntV(1))),
          Asg("w", Call("g", <<Var("u")>>)),
          Call("r", <<>>)>>)

Programs ==
    <<ProgArith, ProgReturn, ProgTopReturn, ProgLoop, ProgRec, ProgInput,
      ProgCond, ProgArgs, ProgDecl, ProgFrames>>

\* name.starts_with(":O__") (interpreter.rs:192), over the names of Programs
IsOutputName(name) == name \in {":O__", ":O___"}
\* name.len() (interpreter.rs:202), over the output names of Programs
NameLen(name) == IF name = ":O__" THEN 4 ELSE 5

--------------------------------------------------------------------------
(* Scope (interpreter.rs:17-30): two hash maps, as functions.              *)

EmptyMap == [k \in {} |-> NoneV]
Insert(m, k, v) == [x \in DOMAIN m \cup {k} |-> IF x = k THEN v ELSE m[x]]

\* Scope::new
NewScope == [symbol_table |-> EmptyMap, function_table |-> EmptyMap]

\* faulty variant: the frame of the program is the scope of every visit
Root(cs) == cs[1]

\* Interpreter::scope: the last frame of the call stack
Top(cs) == cs[Len(cs)]
\* scope_mut() followed by an update of the frame
SetTop(cs, sc) == [cs EXCEPT ![Len(cs)] = sc]
\* Vec::pop
Pop(cs) == SubSeq(cs, 1, Len(cs) - 1)

--------------------------------------------------------------------------
(* Result<Value, InterpreterError> (interpreter.rs:32-36).                 *)

Ok(v) == [tag |-> "Ok", val |-> v]
HackyReturn(v) == [tag |-> "HackyReturn", val |-> v]
DisturbedWorker == [tag |-> "DisturbedWorker", val |-> NoneV]
NoResult == [tag |-> "none", val |-> NoneV]

--------------------------------------------------------------------------
(* Ordering and arithmetic of values.                                      *)

\* the position of the variant in `enum Value` (parser.rs:6-11)
VariantIndex(v) ==
    CASE v.t = "Integer" -> 0
      [] v.t = "String" -> 1
      [] v.t = "Boolean" -> 2
      [] OTHER -> 3

\* the ordering of String: lexicographic
RECURSIVE SeqLess(_, _)
SeqLess(a, b) ==
    IF b = <<>> THEN FALSE
    ELSE IF a = <<>> THEN TRUE
    ELSE IF Head(a) # Head(b) THEN Head(a) < Head(b)
    ELSE SeqLess(Tail(a), Tail(b))

\* #[derive(PartialOrd)] on Value (parser.rs:5): the variants in their
\* order of declaration, then the payloads
ValueLess(a, b) ==
    IF VariantIndex(a) # VariantIndex(b) THEN VariantIndex(a) < VariantIndex(b)
    ELSE CASE a.t = "Integer" -> a.i < b.i
           [] a.t = "String" -> SeqLess(a.s, b.s)
           [] a.t = "Boolean" -> (~a.b) /\ b.b
           [] OTHER -> FALSE

\* the match on compare_type (interpreter.rs:170-180)
CompareResult(ct, l, r) ==
    CASE ct = "Equals" -> l = r
      [] ct = "Less" -> ValueLess(l, r)
      [] OTHER -> ValueLess(r, l)

I32Max == 2147483647
I32Min == -I32Max - 1

Abs(n) == IF n < 0 THEN -n ELSE n
\* 2^31 \div y for 0 < y <= I32Max, within 32 bits
Pow31Div(y) == IF (I32Max % y) + 1 = y THEN (I32Max \div y) + 1 ELSE I32Max \div y

AddOverflows(a, b) == (b > 0 /\ a > I32Max - b) \/ (b < 0 /\ a < I32Min - b)
\* a + b modulo 2^32
WrapAdd(a, b) ==
    IF b > 0 /\ a > I32Max - b THEN (a + I32Min) + (b + I32Min)
    ELSE IF b < 0 /\ a < I32Min - b THEN (a - I32Min) + (b - I32Min)
    ELSE a + b

SubOverflows(a, b) == (b < 0 /\ a > I32Max + b) \/ (b > 0 /\ a < I32Min + b)
\* a - b modulo 2^32
WrapSub(a, b) ==
    IF b < 0 /\ a > I32Max + b THEN (a + I32Min) - (b - I32Min)
    ELSE IF b > 0 /\ a < I32Min + b THEN (a - I32Min) - (b + I32Min)
    ELSE a - b

MulOverflows(a, b) ==
    IF a = 0 \/ b = 0 THEN FALSE
    ELSE IF a = I32Min THEN b # 1
    ELSE IF b = I32Min THEN a # 1
    ELSE IF (a < 0) # (b < 0) THEN Abs(a) > Pow31Div(Abs(b))
    ELSE Abs(a) > I32Max \div Abs(b)

RECURSIVE WrapMulNat(_, _)
WrapMulNat(a, b) ==
    IF b = 0 THEN 0
    ELSE LET half == WrapMulNat(a, b \div 2)
             double == WrapAdd(half, half)
         IN  IF b % 2 = 1 THEN WrapAdd(double, a) ELSE double
\* a * b modulo 2^32
WrapMul(a, b) ==
    IF b = I32Min THEN (IF a % 2 = 0 THEN 0 ELSE I32Min)
    ELSE IF b < 0 THEN WrapSub(0, WrapMulNat(a, -b))
    ELSE WrapMulNat(a, b)

\* the `/` of i32, truncation towards zero, for b # 0 and not i32::MIN / -1
TruncDiv(a, b) ==
    IF b = I32Min THEN (IF a = I32Min THEN 1 ELSE 0)
    ELSE IF a = I32Min THEN (IF b > 0 THEN -Pow31Div(b) ELSE Pow31Div(-b))
    ELSE IF (a < 0) # (b < 0) THEN -(Abs(a) \div Abs(b))
    ELSE Abs(a) \div Abs(b)

\* the outcomes of an i32 operation (interpreter.rs:97-100, 112): the exact
\* value when it fits; on overflow a panic (overflow checks on) or the
\* wrapped value (overflow checks off); a division by zero or of i32::MIN by
\* -1 panics in every build
ArithOutcomes(tok, a, b) ==
    LET panics == [panic |-> TRUE, v |-> 0]
        Value(n) == [panic |-> FALSE, v |-> n]
    IN  CASE tok = "Plus" ->
               IF AddOverflows(a, b) THEN {panics, Value(WrapAdd(a, b))}
               ELSE {Value(a + b)}
          [] tok = "Minus" ->
               IF SubOverflows(a, b) THEN {panics, Value(WrapSub(a, b))}
               ELSE {Value(a - b)}
          [] tok = "Multiply" ->
               IF MulOverflows(a, b) THEN {panics, Value(WrapMul(a, b))}
               ELSE {Value(a * b)}
          [] OTHER ->
               IF b = 0 \/ (a = I32Min /\ b = -1) THEN {panics}
               ELSE {Value(TruncDiv(a, b))}

--------------------------------------------------------------------------
(* The Worker (humanoid.rs:37-44, 91-145, 216-252).                        *)

\* Humanoid::mood_range of Worker (humanoid.rs:237-239)
MoodRange == <<50, 1000, 10000, 100000, 1000000>>

\* HumanoidControl::mood (humanoid.rs:217-233)
Mood(n) ==
    IF n < MoodRange[1] THEN "Happy"
    ELSE IF n < MoodRange[2] THEN "Glad"
    ELSE IF n < MoodRange[3] THEN "Okay"
    ELSE IF n < MoodRange[4] THEN "Sad"
    ELSE IF n < MoodRange[5] THEN "Aggressive"
    ELSE "Deactivated"

\* Worker::new: cooldown (humanoid.rs:99)
InitialCooldown == 20

\* gen_range(1..10) (humanoid.rs:108)
StressGrowth == 1 .. 9

\* gen_range(1000000..1000000000) (humanoid.rs:133): the two ends of the range
CooldownDraws == {1000000, 999999999}

\* The values question_cooldown.elapsed().as_nanos() is read as: the clock
\* is monotonic, and a reading matters only through its comparison with the
\* cooldown, so the readings are the cooldowns and their successors.
ElapsedLevels == {0, InitialCooldown, InitialCooldown + 1, 1000001}

\* The stress level at the start of the modelled run: 0 after Worker::new,
\* or a level one step before the last threshold, which the worker reaches
\* by the visits of a prologue of statements `wenn :( avo cado` (each visit
\* adds 1..9 and the prologue leaves the call stack as it is).
StartStress == {0, MoodRange[5] - 1}

\* What read_line and new_parser.parse() make of the lines a user types
\* (humanoid.rs:64-67): no line; a line parse() rejects; and the trees of
\* the lines `x = 3`, `x = 7`, `x = :)`, `x = 1 + 2`, `x = y`, `x = -3`,
\* `f()` and of the empty line (statement_list keeps its first statement,
\* parser.rs:355-357).  The text parse() gets is the line between the
\* greeting and the farewell.
TypedAnswers ==
    {[line |-> "None"], [line |-> "Some", parse |-> "Err"]}
    \cup {[line |-> "Some", parse |-> "Ok", node |-> Blk(children)] :
             children \in {<<Asg("x", Val(IntV(3)))>>,
                           <<Asg("x", Val(IntV(7)))>>,
                           <<Asg("x", Val(BoolV(TRUE)))>>,
                           <<Asg("x", Bin("Plus", Val(IntV(1)), Val(IntV(2))))>>,
                           <<Asg("x", Var("y"))>>,
                           <<Asg("x", Un("Minus", Val(IntV(3))))>>,
                           <<Call("f", <<>>)>>,
                           <<NoOp>>}}

\* faulty variant: a line that is no assignment of a literal reads as 0
ReadValueOrZero(t) ==
    IF t.line = "Some" /\ t.parse = "Ok" /\ t.node.children # <<>>
       /\ t.node.children[1].type = "Assign"
       /\ t.node.children[1].right.type = "Value"
    THEN t.node.children[1].right.value
    ELSE IntV(0)

\* read_value (humanoid.rs:63-89), on what it has read and parsed
ReadValue(t) ==
    IF t.line = "None" THEN NoneV
    ELSE IF t.parse # "Ok" \/ t.node.type # "Block" THEN NoneV
    ELSE IF t.node.children = <<>> THEN NoneV
    ELSE LET first == t.node.children[1]
         IN  IF first.type # "Assign" THEN NoneV
             ELSE IF first.right.type # "Value" THEN NoneV
             ELSE first.right.value

--------------------------------------------------------------------------
(* The position of the running visit.                                      *)

NoReport == [kind |-> "none", val |-> NoneV, msg |-> ""]

\* visit(n) is entered
Eval(n) ==
    /\ pc' = "eval" /\ node' = n /\ result' = NoneV /\ returned' = NoResult
    /\ UNCHANGED <<report, ncomplete>>

\* the match arm of n has produced v (interpreter.rs:93-262)
Arm(n, v) ==
    /\ pc' = "gate" /\ node' = n /\ result' = v /\ returned' = NoResult
    /\ UNCHANGED <<report, ncomplete>>

\* visit(n) returns r to its caller
Return(n, r) ==
    /\ pc' = "ret" /\ node' = n /\ result' = NoneV /\ returned' = r
    /\ ncomplete' = IF r.tag = "Ok" THEN ncomplete + 1 ELSE ncomplete
    /\ UNCHANGED report

\* panic!(msg): the process ends
Panic(msg) ==
    /\ pc' = "panic" /\ node' = node /\ result' = NoneV /\ returned' = NoResult
    /\ report' = [kind |-> "panic", val |-> NoneV, msg |-> msg]
    /\ UNCHANGED ncomplete

\* a pending visit: the node, and the locals it waits with (caller_stack is
\* history: the call stack as a user call found it before it pushed its frame)
Frame(k, n) ==
    [k |-> k, node |-> n, i |-> 0, v |-> NoneV, text |-> <<>>, scope |-> NewScope,
     decl |-> NoOp, caller_stack |-> <<>>]

Push(f) == kont' = <<f>> \o kont
Replace(f) == kont' = <<f>> \o Tail(kont)
PopFrame == kont' = Tail(kont)

\* visit(child) has returned Ok to the pending visit of kind k
ChildDone(k) ==
    /\ pc = "ret" /\ returned.tag = "Ok" /\ kont # <<>> /\ Head(kont).k = k

workerVars ==
    <<stress_level, prev_mood, cooldown, elapsed, user_answer, typed, nincs>>
runVars == <<program, strict_work, phase, strict_outcome, frontVars>>

--------------------------------------------------------------------------
(* Worker::call (humanoid.rs:103-145), in three steps: the consultation up *)
(* to the blocking read, the read, the comparison.                         *)

\* faulty variant: the strict flag is not looked at
GateAlwaysEnabled == TRUE

\* if self.strict_work { return Ok(()); } (humanoid.rs:104-106)
GateEnabled == ~strict_work

\* faulty variant: a bare Value node is questioned like any other node
ConsultsLiterals(current_mood, e, n) ==
    current_mood = "Deactivated" /\ e > cooldown

\* the condition of the question (humanoid.rs:114-118): the terminal mood,
\* the cooldown elapsed, and not a bare Value node
Consults(current_mood, e, n) ==
    current_mood = "Deactivated" /\ e > cooldown /\ n.type # "Value"

\* faulty variant: the counter is not reset
StressKept == stress_level

\* self.stress_level = 0 (humanoid.rs:132)
StressAfterAnswer == 0

WorkerCall ==
    /\ pc = "gate"
    /\ IF ~GateEnabled
       THEN /\ Return(node, Ok(result))
            /\ UNCHANGED workerVars
       ELSE \E growth \in StressGrowth :
            LET level == stress_level + growth
                current_mood == Mood(level)
            IN  /\ stress_level' = level
                /\ prev_mood' = current_mood
                /\ nincs' = nincs + 1
                /\ UNCHANGED <<cooldown, user_answer, typed>>
                /\ IF current_mood = "Deactivated"
                   THEN \E e \in ElapsedLevels :
                        /\ e >= elapsed
                        /\ elapsed' = e
                        /\ IF Consults(current_mood, e, node)
                           THEN /\ pc' = "ask"
                                /\ UNCHANGED <<node, result, returned, report, ncomplete>>
                           ELSE Return(node, Ok(result))
                   ELSE /\ elapsed' = elapsed
                        /\ Return(node, Ok(result))
    /\ UNCHANGED <<kont, call_stack, out, input_log, runVars>>

\* self.user_answer = Some(read_value(">>")) (humanoid.rs:124)
ReadAnswer ==
    /\ pc = "ask"
    /\ \E line \in TypedAnswers :
          typed' = line /\ user_answer' = ReadValue(line)
    /\ pc' = "check"
    /\ UNCHANGED <<node, result, returned, report, ncomplete, kont, call_stack,
                   out, input_log, runVars, stress_level, prev_mood, cooldown,
                   elapsed, nincs>>

\* faulty variant: the right answer resets the worker and then falls into the
\* error return
CheckAnswerThenAborts ==
    /\ pc = "check"
    /\ IF user_answer = result
       THEN /\ stress_level' = StressAfterAnswer
            /\ \E c \in CooldownDraws : cooldown' = c
            /\ elapsed' = 0
            /\ user_answer' = NoAnswer
            /\ Return(node, DisturbedWorker)
       ELSE /\ Return(node, DisturbedWorker)
            /\ UNCHANGED <<stress_level, cooldown, elapsed, user_answer>>
    /\ typed' = [line |-> "dropped"]
    /\ UNCHANGED <<prev_mood, nincs, kont, call_stack, out, input_log, runVars>>

\* the comparison of the answer with the value (humanoid.rs:126-144)
CheckAnswer ==
    /\ pc = "check"
    /\ IF user_answer = result
       THEN /\ stress_level' = StressAfterAnswer
            /\ \E c \in CooldownDraws : cooldown' = c
            /\ elapsed' = 0
            /\ user_answer' = NoAnswer
            /\ Return(node, Ok(result))
       ELSE /\ Return(node, DisturbedWorker)
            /\ UNCHANGED <<stress_level, cooldown, elapsed, user_answer>>
    /\ typed' = [line |-> "dropped"]
    /\ UNCHANGED <<prev_mood, nincs, kont, call_stack, out, input_log, runVars>>

--------------------------------------------------------------------------
(* Interpreter::visit (interpreter.rs:92-265), one action per match arm    *)
(* and per return of a child visit.                                        *)

\* Interpreter::expect (interpreter.rs:49-58)
IsNumber(v) == v.t = "Integer"

\* ASTNode::Value (interpreter.rs:105-107)
VisitValue ==
    /\ pc = "eval" /\ node.type = "Value"
    /\ Arm(node, node.value)
    /\ UNCHANGED <<kont, call_stack, out, input_log, workerVars, runVars>>

\* ASTNode::Variable, resolve_variable (interpreter.rs:132-134, 70-79)
VisitVariable ==
    /\ pc = "eval" /\ node.type = "Variable"
    /\ LET table == Top(call_stack).symbol_table
       IN  IF node.name \in DOMAIN table
           THEN Arm(node, table[node.name])
           ELSE Panic("Unknown variable name")
    /\ UNCHANGED <<kont, call_stack, out, input_log, workerVars, runVars>>

\* ASTNode::NoOp (interpreter.rs:261)
VisitNoOp ==
    /\ pc = "eval" /\ node.type = "NoOp"
    /\ Arm(node, NoneV)
    /\ UNCHANGED <<kont, call_stack, out, input_log, workerVars, runVars>>

\* ASTNode::BinOp: the left operand first (interpreter.rs:94-104)
VisitBinOp ==
    /\ pc = "eval" /\ node.type = "BinOp"
    /\ IF node.token \in {"Plus", "Minus", "Multiply", "Divide"}
       THEN Push(Frame("BinOpLeft", node)) /\ Eval(node.left)
       ELSE Panic("Invalid BinaryOp Token") /\ UNCHANGED kont
    /\ UNCHANGED <<call_stack, out, input_log, workerVars, runVars>>

\* expect(left), then the right operand
BinOpLeftDone ==
    /\ ChildDone("BinOpLeft")
    /\ IF IsNumber(returned.val)
       THEN /\ Replace([Head(kont) EXCEPT !.k = "BinOpRight", !.v = returned.val])
            /\ Eval(Head(kont).node.right)
       ELSE Panic("Not a number!") /\ UNCHANGED kont
    /\ UNCHANGED <<call_stack, out, input_log, workerVars, runVars>>

\* expect(right), then the operation
BinOpRightDone ==
    /\ ChildDone("BinOpRight")
    /\ IF IsNumber(returned.val)
       THEN \E o \in ArithOutcomes(Head(kont).node.token, Head(kont).v.i, returned.val.i) :
            IF o.panic
            THEN Panic("arithmetic") /\ UNCHANGED kont
            ELSE PopFrame /\ Arm(Head(kont).node, IntV(o.v))
       ELSE Panic("Not a number!") /\ UNCHANGED kont
    /\ UNCHANGED <<call_stack, out, input_log, workerVars, runVars>>

\* ASTNode::UnaryOp (interpreter.rs:108-116)
VisitUnaryOp ==
    /\ pc = "eval" /\ node.type = "UnaryOp"
    /\ IF node.token \in {"Plus", "Minus"}
       THEN Push(Frame("UnaryOp", node)) /\ Eval(node.expression)
       ELSE Panic("Invalid UnaryOp Token") /\ UNCHANGED kont
    /\ UNCHANGED <<call_stack, out, input_log, workerVars, runVars>>

UnaryOpDone ==
    /\ ChildDone("UnaryOp")
    /\ IF IsNumber(returned.val)
       THEN \E o \in (IF Head(kont).node.token = "Plus"
                      THEN {[panic |-> FALSE, v |-> returned.val.i]}
                      ELSE ArithOutcomes("Minus", 0, returned.val.i)) :
            IF o.panic
            THEN Panic("arithmetic") /\ UNCHANGED kont
            ELSE PopFrame /\ Arm(Head(kont).node, IntV(o.v))
       ELSE Panic("Not a number!") /\ UNCHANGED kont
    /\ UNCHANGED <<call_stack, out, input_log, workerVars, runVars>>

\* ASTNode::Block: the first child (interpreter.rs:117-131)
VisitBlock ==
    /\ pc = "eval" /\ node.type = "Block"
    /\ IF node.children = <<>>
       THEN Arm(node, NoneV) /\ UNCHANGED kont
       ELSE /\ Push([Frame("Block", node) EXCEPT !.i = 1])
            /\ Eval(node.children[1])
    /\ UNCHANGED <<call_stack, out, input_log, workerVars, runVars>>

\* a child of the block has returned Ok: the next child, or the end
BlockChildDone ==
    /\ ChildDone("Block")
    /\ LET f == Head(kont)
           children == f.node.children
       IN  IF children[f.i].type = "Return"
           THEN PopFrame /\ Return(f.node, Ok(returned.val))
           ELSE IF f.i < Len(children)
           THEN Replace([f EXCEPT !.i = f.i + 1]) /\ Eval(children[f.i + 1])
           ELSE PopFrame /\ Arm(f.node, NoneV)
    /\ UNCHANGED <<call_stack, out, input_log, workerVars, runVars>>

\* ASTNode::Assign (interpreter.rs:135-144)
VisitAssign ==
    /\ pc = "eval" /\ node.type = "Assign"
    /\ IF node.left.type = "Variable"
       THEN Push(Frame("Assign", node)) /\ Eval(node.right)
       ELSE Panic("Invalid Left Side in Assign.") /\ UNCHANGED kont
    /\ UNCHANGED <<call_stack, out, input_log, workerVars, runVars>>

\* symbol_table.insert(name, value) in the top frame
AssignDone ==
    /\ ChildDone("Assign")
    /\ LET n == Head(kont).node
           scope == Top(call_stack)
       IN  /\ call_stack' = SetTop(call_stack,
                 [scope EXCEPT !.symbol_table = Insert(@, n.left.name, returned.val)])
           /\ PopFrame
           /\ Arm(n, NoneV)
    /\ UNCHANGED <<out, input_log, workerVars, runVars>>

\* ASTNode::If: the condition (interpreter.rs:145-160)
VisitIf ==
    /\ pc = "eval" /\ node.type = "If"
    /\ Push(Frame("IfCondition", node))
    /\ Eval(node.condition)
    /\ UNCHANGED <<call_stack, out, input_log, workerVars, runVars>>

IfConditionDone ==
    /\ ChildDone("IfCondition")
    /\ LET f == Head(kont)
       IN  IF returned.val = BoolV(TRUE)
           THEN Replace([f EXCEPT !.k = "IfExecution"]) /\ Eval(f.node.execution)
           ELSE IF returned.val = BoolV(FALSE)
           THEN PopFrame /\ Arm(f.node, NoneV)
           ELSE PopFrame /\ Return(f.node, DisturbedWorker)
    /\ UNCHANGED <<call_stack, out, input_log, workerVars, runVars>>

IfExecutionDone ==
    /\ ChildDone("IfExecution")
    /\ PopFrame
    /\ Arm(Head(kont).node, NoneV)
    /\ UNCHANGED <<call_stack, out, input_log, workerVars, runVars>>

\* ASTNode::Loop: the condition (interpreter.rs:161-166)
VisitLoop ==
    /\ pc = "eval" /\ node.type = "Loop"
    /\ Push(Frame("LoopCondition", node))
    /\ Eval(node.condition)
    /\ UNCHANGED <<call_stack, out, input_log, workerVars, runVars>>

\* faulty variant: the body also runs when the condition is false
ContinuesOnBoolean(v) == v.t = "Boolean"

\* the pattern Value::Boolean(true) of the while let (interpreter.rs:162)
Continues(v) == v = BoolV(TRUE)

\* while let Value::Boolean(true) = self.visit(condition)?
LoopConditionDone ==
    /\ ChildDone("LoopCondition")
    /\ LET f == Head(kont)
       IN  IF Continues(returned.val)
           THEN Replace([f EXCEPT !.k = "LoopExecution"]) /\ Eval(f.node.execution)
           ELSE PopFrame /\ Arm(f.node, NoneV)
    /\ UNCHANGED <<call_stack, out, input_log, workerVars, runVars>>

LoopExecutionDone ==
    /\ ChildDone("LoopExecution")
    /\ Replace([Head(kont) EXCEPT !.k = "LoopCondition"])
    /\ Eval(Head(kont).node.condition)
    /\ UNCHANGED <<call_stack, out, input_log, workerVars, runVars>>

\* ASTNode::Compare (interpreter.rs:167-181)
VisitCompare ==
    /\ pc = "eval" /\ node.type = "Compare"
    /\ Push(Frame("CompareLeft", node))
    /\ Eval(node.left)
    /\ UNCHANGED <<call_stack, out, input_log, workerVars, runVars>>

CompareLeftDone ==
    /\ ChildDone("CompareLeft")
    /\ Replace([Head(kont) EXCEPT !.k = "CompareRight", !.v = returned.val])
    /\ Eval(Head(kont).node.right)
    /\ UNCHANGED <<call_stack, out, input_log, workerVars, runVars>>

\* return Ok(Value::Boolean(..)): the visit returns from inside the match
CompareRightDone ==
    /\ ChildDone("CompareRight")
    /\ LET f == Head(kont)
       IN  /\ PopFrame
           /\ Return(f.node,
                     Ok(BoolV(CompareResult(f.node.compare_type, f.v, returned.val))))
    /\ UNCHANGED <<call_stack, out, input_log, workerVars, runVars>>

\* faulty variant: a second declaration silently replaces the first
RedeclaredNever(name, table) == FALSE

\* None != function_table.insert(..) (interpreter.rs:183)
Redeclared(name, table) == name \in DOMAIN table

\* ASTNode::FunctionDeclaration (interpreter.rs:182-187)
VisitFunctionDeclaration ==
    /\ pc = "eval" /\ node.type = "FunctionDeclaration"
    /\ LET scope == Top(call_stack)
       IN  /\ call_stack' = SetTop(call_stack,
                 [scope EXCEPT !.function_table = Insert(@, node.name, node)])
           /\ IF Redeclared(node.name, scope.function_table)
              THEN Panic("Function redeclared!")
              ELSE Arm(node, NoneV)
    /\ UNCHANGED <<kont, out, input_log, workerVars, runVars>>

\* ASTNode::Return (interpreter.rs:257-260)
VisitReturn ==
    /\ pc = "eval" /\ node.type = "Return"
    /\ Push(Frame("Return", node))
    /\ Eval(node.expression)
    /\ UNCHANGED <<call_stack, out, input_log, workerVars, runVars>>

\* return Err(InterpreterError::HackyReturn(value))
ReturnDone ==
    /\ ChildDone("Return")
    /\ PopFrame
    /\ Return(Head(kont).node, HackyReturn(returned.val))
    /\ UNCHANGED <<call_stack, out, input_log, workerVars, runVars>>

\* the `?` after visit(..): an Err leaves the pending visit at once
PropagateError ==
    /\ pc = "ret" /\ returned.tag # "Ok"
    /\ kont # <<>> /\ Head(kont).k # "CallBody"
    /\ PopFrame
    /\ Return(Head(kont).node, returned)
    /\ UNCHANGED <<call_stack, out, input_log, workerVars, runVars>>

--------------------------------------------------------------------------
(* ASTNode::FunctionCall (interpreter.rs:188-256).                         *)

\* The loop over the parameters of an output or input call
\* (interpreter.rs:194-201, 205-212) from parameter i on, up to the first
\* parameter that needs a visit: a Variable parameter is resolved in place
\* and its Display is appended to the text.
RECURSIVE ScanParameters(_, _, _, _)
ScanParameters(parameters, i, text, table) ==
    IF i > Len(parameters)
    THEN [i |-> i, text |-> text, unknown |-> FALSE]
    ELSE IF parameters[i].type # "Variable"
    THEN [i |-> i, text |-> text, unknown |-> FALSE]
    ELSE IF parameters[i].name \notin DOMAIN table
    THEN [i |-> i, text |-> text, unknown |-> TRUE]
    ELSE ScanParameters(parameters, i + 1,
                        text \o Display(table[parameters[i].name]), table)

IsUserCall(n) ==
    /\ n.type = "FunctionCall" /\ n.function.type = "Variable"
    /\ ~IsOutputName(n.function.name) /\ n.function.name # "d;D"

\* self.shouter.shout(name.len() - 3, text) (interpreter.rs:202)
Shout(n, text) == out' = Append(out, [level |-> NameLen(n.function.name) - 3, text |-> text])

\* the output call: name.starts_with(":O__") (interpreter.rs:192-202)
VisitOutputCall ==
    /\ pc = "eval" /\ node.type = "FunctionCall"
    /\ node.function.type = "Variable" /\ IsOutputName(node.function.name)
    /\ LET scan == ScanParameters(node.parameters, 1, <<>>,
                                  Top(call_stack).symbol_table)
       IN  IF scan.unknown
           THEN Panic("Unknown variable name") /\ UNCHANGED <<kont, out>>
           ELSE IF scan.i > Len(node.parameters)
           THEN Shout(node, scan.text) /\ Arm(node, NoneV) /\ UNCHANGED kont
           ELSE /\ Push([Frame("OutputParameter", node) EXCEPT
                            !.i = scan.i, !.text = scan.text])
                /\ Eval(node.parameters[scan.i])
                /\ UNCHANGED out
    /\ UNCHANGED <<call_stack, input_log, workerVars, runVars>>

OutputParameterDone ==
    /\ ChildDone("OutputParameter")
    /\ LET f == Head(kont)
           scan == ScanParameters(f.node.parameters, f.i + 1,
                                  f.text \o Display(returned.val),
                                  Top(call_stack).symbol_table)
       IN  IF scan.unknown
           THEN Panic("Unknown variable name") /\ UNCHANGED <<kont, out>>
           ELSE IF scan.i > Len(f.node.parameters)
           THEN Shout(f.node, scan.text) /\ Arm(f.node, NoneV) /\ PopFrame
           ELSE /\ Replace([f EXCEPT !.i = scan.i, !.text = scan.text])
                /\ Eval(f.node.parameters[scan.i])
                /\ UNCHANGED out
    /\ UNCHANGED <<call_stack, input_log, workerVars, runVars>>

\* the input call blocks in read_value(&text) (interpreter.rs:214)
AwaitInput(n) ==
    /\ pc' = "input" /\ node' = n /\ result' = NoneV /\ returned' = NoResult
    /\ UNCHANGED <<report, ncomplete>>

\* the input call: name == "d;D" (interpreter.rs:203-214)
VisitInputCall ==
    /\ pc = "eval" /\ node.type = "FunctionCall"
    /\ node.function.type = "Variable" /\ node.function.name = "d;D"
    /\ LET scan == ScanParameters(node.parameters, 1, <<>>,
                                  Top(call_stack).symbol_table)
       IN  IF scan.unknown
           THEN Panic("Unknown variable name") /\ UNCHANGED kont
           ELSE IF scan.i > Len(node.parameters)
           THEN AwaitInput(node) /\ UNCHANGED kont
           ELSE /\ Push([Frame("InputParameter", node) EXCEPT
                            !.i = scan.i, !.text = scan.text])
                /\ Eval(node.parameters[scan.i])
    /\ UNCHANGED <<call_stack, out, input_log, workerVars, runVars>>

InputParameterDone ==
    /\ ChildDone("InputParameter")
    /\ LET f == Head(kont)
           scan == ScanParameters(f.node.parameters, f.i + 1,
                                  f.text \o Display(returned.val),
                                  Top(call_stack).symbol_table)
       IN  IF scan.unknown
           THEN Panic("Unknown variable name") /\ UNCHANGED kont
           ELSE IF scan.i > Len(f.node.parameters)
           THEN AwaitInput(f.node) /\ PopFrame
           ELSE /\ Replace([f EXCEPT !.i = scan.i, !.text = scan.text])
                /\ Eval(f.node.parameters[scan.i])
    /\ UNCHANGED <<call_stack, out, input_log, workerVars, runVars>>

\* return Ok(read_value(&text)): the typed value; the second run of a
\* program reads what its first run has read
ReadInput ==
    /\ pc = "input"
    /\ \E v \in {ReadValue(line) : line \in TypedAnswers} :
          /\ phase = 2 =>
                /\ Len(input_log) < Len(strict_outcome.input_log)
                /\ v = strict_outcome.input_log[Len(input_log) + 1]
          /\ input_log' = Append(input_log, v)
          /\ Return(node, Ok(v))
    /\ UNCHANGED <<kont, call_stack, out, workerVars, runVars>>

\* push the frame and visit the body (interpreter.rs:235-237)
EnterBody(f, scope, pending) ==
    /\ call_stack' = Append(call_stack, scope)
    /\ kont' = <<[f EXCEPT !.k = "CallBody", !.scope = scope,
                            !.caller_stack = call_stack]>> \o pending
    /\ Eval(f.decl.execution_block)

\* faulty variant: the callee starts without any function
CalleeScopeEmpty(table) == NewScope

\* the new scope with every function of the caller (interpreter.rs:218-221)
CalleeScope(table) == [NewScope EXCEPT !.function_table = table]

\* faulty variant: the argument count is not looked at
ArgumentCountIgnored(decl, n) == FALSE

\* func_parameters.len() != parameters.len() (interpreter.rs:224)
ArgumentCountDiffers(decl, n) == Len(decl.parameters) # Len(n.parameters)

\* faulty variant: the arguments are bound to the parameters last to first
ParameterNameReversed(decl, i) == decl.parameters[Len(decl.parameters) - i + 1]

\* func_parameters.get(i) (interpreter.rs:231)
ParameterName(decl, i) == decl.parameters[i]

\* a user-defined function: the new scope, resolve_function, the argument
\* count, the first argument (interpreter.rs:218-230, 81-90)
VisitUserCall ==
    /\ pc = "eval" /\ IsUserCall(node)
    /\ LET table == Top(call_stack).function_table
           new_scope == CalleeScope(table)
           name == node.function.name
       IN  IF name \notin DOMAIN table
           THEN Panic("Unknown variable name") /\ UNCHANGED <<kont, call_stack>>
           ELSE IF ArgumentCountDiffers(table[name], node)
           THEN Panic("Invalid argument count!") /\ UNCHANGED <<kont, call_stack>>
           ELSE LET f == [Frame("CallParameter", node) EXCEPT
                             !.scope = new_scope, !.decl = table[name]]
                IN  IF node.parameters = <<>>
                    THEN EnterBody(f, new_scope, kont)
                    ELSE /\ Push([f EXCEPT !.i = 1])
                         /\ Eval(node.parameters[1])
                         /\ UNCHANGED call_stack
    /\ UNCHANGED <<out, input_log, workerVars, runVars>>

\* new_scope.symbol_table.insert(func_parameters[i], value); after the last
\* argument the frame is pushed (interpreter.rs:229-237)
CallParameterDone ==
    /\ ChildDone("CallParameter")
    /\ LET f == Head(kont)
           scope == [f.scope EXCEPT
                        !.symbol_table = Insert(@, ParameterName(f.decl, f.i), returned.val)]
       IN  IF f.i < Len(f.node.parameters)
           THEN /\ Replace([f EXCEPT !.i = f.i + 1, !.scope = scope])
                /\ Eval(f.node.parameters[f.i + 1])
                /\ UNCHANGED call_stack
           ELSE EnterBody(f, scope, Tail(kont))
    /\ UNCHANGED <<out, input_log, workerVars, runVars>>

\* the match on the result of the body (interpreter.rs:237-247): a value
\* or a HackyReturn pops the frame and is the value of the call; any other
\* error returns at once
\* faulty variant: every error of the body is taken for the value of the call
AbsorbedAny(r) == TRUE

\* faulty variant: a HackyReturn is passed on like any other error
AbsorbedOnlyOk(r) == r.tag = "Ok"

\* the arms Ok(value) and Err(HackyReturn(value)) (interpreter.rs:238-243)
Absorbed(r) == r.tag \in {"Ok", "HackyReturn"}

\* faulty variant: the frame of the call is not popped
AfterCallKeepsFrame(cs) == cs

\* self.call_stack.pop() (interpreter.rs:246)
AfterCall(cs) == Pop(cs)

CallBodyDone ==
    /\ pc = "ret" /\ kont # <<>> /\ Head(kont).k = "CallBody"
    /\ IF Absorbed(returned)
       THEN /\ call_stack' = AfterCall(call_stack)
            /\ Return(Head(kont).node, Ok(returned.val))
       ELSE /\ Return(Head(kont).node, returned)
            /\ UNCHANGED call_stack
    /\ PopFrame
    /\ UNCHANGED <<out, input_log, workerVars, runVars>>

--------------------------------------------------------------------------
(* Interpreter::new and Interpreter::interpret (interpreter.rs:40-47,      *)
(* 267-284).                                                               *)

\* let result = self.visit(&tree)
Interpret ==
    /\ pc = "start"
    /\ Eval(Programs[program])
    /\ UNCHANGED <<kont, call_stack, out, input_log, workerVars, runVars>>

\* faulty variant: a HackyReturn that reaches the driver is dropped
ReportDropsReturn(r) ==
    CASE r.tag \in {"Ok", "HackyReturn"} -> [kind |-> "ok", val |-> NoneV, msg |-> ""]
      [] OTHER -> [kind |-> "error", val |-> NoneV, msg |-> r.tag]

\* the match on the result of the root visit (interpreter.rs:270-280):
\* nothing, "This program throwed at us a: {}", or "Oh oh... {:?}"
ReportOf(r) ==
    CASE r.tag = "Ok" -> [kind |-> "ok", val |-> NoneV, msg |-> ""]
      [] r.tag = "HackyReturn" -> [kind |-> "throw", val |-> r.val, msg |-> ""]
      [] OTHER -> [kind |-> "error", val |-> NoneV, msg |-> r.tag]

InterpretDone ==
    /\ pc = "ret" /\ kont = <<>>
    /\ pc' = "done"
    /\ report' = ReportOf(returned)
    /\ UNCHANGED <<node, result, returned, ncomplete, kont, call_stack, out,
                   input_log, workerVars, runVars>>

\* what a run leaves behind
Outcome ==
    [call_stack |-> call_stack, out |-> out, report |-> report,
     input_log |-> input_log]

NoOutcome ==
    [call_stack |-> <<>>, out |-> <<>>, report |-> NoReport, input_log |-> <<>>]

\* Interpreter::new(parser, strict), Worker::new(strict)
Constructed(strict) ==
    /\ strict_work = strict
    /\ pc = "start" /\ node = NoOp /\ result = NoneV /\ returned = NoResult
    /\ kont = <<>>
    /\ call_stack = <<NewScope>>
    /\ stress_level \in (IF strict THEN {0} ELSE StartStress)
    /\ prev_mood = Mood(stress_level)
    /\ cooldown = InitialCooldown
    /\ elapsed = 0
    /\ user_answer = NoAnswer
    /\ typed = [line |-> "dropped"]
    /\ out = <<>>
    /\ report = NoReport
    /\ input_log = <<>>
    /\ ncomplete = 0 /\ nincs = 0

Init ==
    /\ program \in 1 .. Len(Programs)
    /\ \E strict \in BOOLEAN : Constructed(strict)
    /\ phase = 1
    /\ strict_outcome = NoOutcome
    /\ FrontUnused

Visit ==
    \/ VisitValue \/ VisitVariable \/ VisitNoOp
    \/ VisitBinOp \/ BinOpLeftDone \/ BinOpRightDone
    \/ VisitUnaryOp \/ UnaryOpDone
    \/ VisitBlock \/ BlockChildDone
    \/ VisitAssign \/ AssignDone
    \/ VisitIf \/ IfConditionDone \/ IfExecutionDone
    \/ VisitLoop \/ LoopConditionDone \/ LoopExecutionDone
    \/ VisitCompare \/ CompareLeftDone \/ CompareRightDone
    \/ VisitFunctionDeclaration
    \/ VisitOutputCall \/ OutputParameterDone
    \/ VisitInputCall \/ InputParameterDone \/ ReadInput
    \/ VisitUserCall \/ CallParameterDone \/ CallBodyDone
    \/ VisitReturn \/ ReturnDone
    \/ PropagateError
    \/ WorkerCall \/ ReadAnswer \/ CheckAnswer

Next == Interpret \/ Visit \/ InterpretDone

Spec == Init /\ [][Next]_vars

--------------------------------------------------------------------------
(* The same program run twice: first with the gate disabled, then, by a    *)
(* new interpreter, with the gate enabled (main.rs:39-50 with and without  *)
(* USE_HUMANOIDS); the second run reads the inputs of the first.           *)

Rerun ==
    /\ phase = 1 /\ pc \in {"done", "panic"}
    /\ phase' = 2
    /\ strict_outcome' = Outcome
    /\ program' = program
    /\ strict_work' = FALSE
    /\ pc' = "start" /\ node' = NoOp /\ result' = NoneV /\ returned' = NoResult
    /\ kont' = <<>>
    /\ call_stack' = <<NewScope>>
    /\ stress_level' \in StartStress
    /\ prev_mood' = Mood(stress_level')
    /\ cooldown' = InitialCooldown
    /\ elapsed' = 0
    /\ user_answer' = NoAnswer
    /\ typed' = [line |-> "dropped"]
    /\ out' = <<>>
    /\ report' = NoReport
    /\ input_log' = <<>>
    /\ ncomplete' = 0 /\ nincs' = 0
    /\ UNCHANGED frontVars

InitTwin ==
    /\ program \in 1 .. Len(Programs)
    /\ Constructed(TRUE)
    /\ phase = 1
    /\ strict_outcome = NoOutcome
    /\ FrontUnused

SpecTwin == InitTwin /\ [][Next \/ Rerun]_vars

--------------------------------------------------------------------------
(* The tokenizer (lexer.rs). A text is a sequence of characters, each a    *)
(* code point; `position` counts characters, text.len() counts bytes.      *)

\* the longest text of the model
MaxTextLen == 3

\* chars().nth(..) = None (lexer.rs:86)
NoChar == 0 - 1

\* the characters of the texts: 1 + blank i s e-acute : ) < >
LexChars == {49, 43, 32, 105, 115, 233, 58, 41, 60, 62}

\* the interpreter, which a run of the tokenizer or of the parser alone
\* does not use
interpreterVars ==
    <<program, strict_work, pc, node, result, returned, kont, call_stack,
      stress_level, prev_mood, cooldown, elapsed, user_answer, typed, out,
      report, input_log, ncomplete, nincs, phase, strict_outcome>>

\* the bytes of a character in UTF-8, for the code points below 2048
Utf8Len(c) == IF c < 128 THEN 1 ELSE 2

\* self.text.len() (lexer.rs:206): the length in bytes
RECURSIVE ByteLen(_)
ByteLen(text) ==
    IF text = <<>> THEN 0 ELSE Utf8Len(Head(text)) + ByteLen(Tail(text))

\* char::is_digit(10), char::is_alphanumeric over the characters of the model
IsDigit(c) == c \in 48 .. 57
IsAlphanumeric(c) == IsDigit(c) \/ c \in 65 .. 90 \/ c \in 97 .. 122 \/ c = 233

\* Lexer::current_char, Lexer::peek (lexer.rs:85-91)
CurrentChar(text, position) ==
    IF position < Len(text) THEN text[position + 1] ELSE NoChar
Peek(text, position) == CurrentChar(text, position + 1)

\* Lexer::skip_whitespace (lexer.rs:97-105): the position it stops at
RECURSIVE SkipWhitespace(_, _)
SkipWhitespace(text, position) ==
    IF CurrentChar(text, position) = 32
    THEN SkipWhitespace(text, position + 1) ELSE position

\* Token (lexer.rs:22-39)
Tok(kind) == [kind |-> kind, s |-> <<>>, n |-> 0, b |-> FALSE, keyword |-> ""]
KeywordTok(k) == [Tok("ReservedKeyword") EXCEPT !.keyword = k]
EOFTok == Tok("EOF")

\* the results of get_next_token and of the functions it calls
\* (a panic is the result "panic"; the tag "none" is no result)
LexOk(t, position) == [tag |-> "Ok", token |-> t, msg |-> "", position |-> position]
LexErr(tag, msg, position) == [tag |-> tag, token |-> EOFTok, msg |-> msg, position |-> position]

\* reserved_keywords (lexer.rs:67-81)
ReservedKeywords ==
    {[text |-> <<104, 97, 108, 108, 111>>, keyword |-> "Greeting"],
     [text |-> <<114, 101, 105, 99, 104, 116, 32, 100, 97, 110, 110, 32, 97, 117, 99, 104, 32, 109, 97, 108>>, keyword |-> "Farewell"],
     [text |-> <<97, 118, 111>>, keyword |-> "Avo"],
     [text |-> <<99, 97, 100, 111>>, keyword |-> "Cado"],
     [text |-> <<102, 117, 110, 110, 121>>, keyword |-> "Function"],
     [text |-> <<119, 101, 110, 110>>, keyword |-> "If"],
     [text |-> <<119, 105, 114, 102>>, keyword |-> "Return"],
     [text |-> <<115, 99, 104, 108, 101, 105, 102>>, keyword |-> "Loop"],
     [text |-> <<105, 115>>, keyword |-> "Equals"],
     [text |-> <<107, 108, 101, 105, 110, 97>>, keyword |-> "Less"],
     [text |-> <<107, 114, 97, 115, 115, 101, 114>>, keyword |-> "Greater"],
     [text |-> <<109, 97, 99, 104, 109, 97>>, keyword |-> "AssignPrefix"],
     [text |-> <<117, 102>>, keyword |-> "AssignInfix"]}

\* Lexer::integer (lexer.rs:107-120): the position of the last digit, and
\* the value of the digits
RECURSIVE IntegerEnd(_, _)
IntegerEnd(text, position) ==
    IF IsDigit(Peek(text, position))
    THEN IntegerEnd(text, position + 1) ELSE position
RECURSIVE DigitsValue(_)
DigitsValue(number) ==
    IF number = <<>> THEN 0
    ELSE 10 * DigitsValue(SubSeq(number, 1, Len(number) - 1))
         + (number[Len(number)] - 48)

\* the token of a one-character symbol (lexer.rs:217-234)
SymbolKinds ==
    [c \in {43, 45, 42, 47, 40, 41, 61, 10, 44} |->
        CASE c = 43 -> "Plus" [] c = 45 -> "Minus" [] c = 42 -> "Multiply"
          [] c = 47 -> "Divide" [] c = 40 -> "ParentheseOpen"
          [] c = 41 -> "ParentheseClose" [] c = 61 -> "Assign"
          [] c = 10 -> "EndLine" [] c = 44 -> "Comma"]

\* Lexer::smiley (lexer.rs:183-202): none, or a boolean and the position
Smiley(text, position) ==
    CASE Peek(text, position) = 41 -> LexOk([Tok("Boolean") EXCEPT !.b = TRUE], position + 1)
      [] Peek(text, position) = 40 -> LexOk(Tok("Boolean"), position + 1)
      [] OTHER -> [tag |-> "none"]

\* the string loop of keyword_or_string (lexer.rs:128-135): the position
\* before the closing > or of the last character
RECURSIVE StringEnd(_, _)
StringEnd(text, position) ==
    IF Peek(text, position) \notin {NoChar, 62}
    THEN StringEnd(text, position + 1) ELSE position

\* the keyword loop of keyword_or_string (lexer.rs:150-165), reading on
\* from `position` a word that starts at `start`
RECURSIVE KeywordScan(_, _, _)
KeywordScan(text, start, position) ==
    LET next_char == Peek(text, position)
        word == SubSeq(text, start + 1, position + 2)
    IN  IF IsAlphanumeric(next_char) \/ next_char \in {32, 95}
        THEN IF \E k \in ReservedKeywords : k.text = word
             THEN LexOk(KeywordTok((CHOOSE k \in ReservedKeywords : k.text = word).keyword),
                        position + 1)
             ELSE KeywordScan(text, start, position + 1)
        ELSE [tag |-> "none"]

\* the variable loop of keyword_or_string (lexer.rs:169-176)
RECURSIVE VariableEnd(_, _)
VariableEnd(text, position) ==
    IF IsAlphanumeric(Peek(text, position)) \/ Peek(text, position) = 95
    THEN VariableEnd(text, position + 1) ELSE position

\* Lexer::keyword_or_string (lexer.rs:122-181); result.get(0..1) is a slice
\* of bytes and is None inside a character of more than one byte
KeywordOrString(text, position) ==
    IF CurrentChar(text, position) = 60
    THEN LET e == StringEnd(text, position) + 1
         IN  IF CurrentChar(text, e) = 62
             THEN LexOk([Tok("String") EXCEPT !.s = SubSeq(text, position + 2, e)], e)
             ELSE LexErr("Err", "Missing string closure: >", e)
    ELSE LET keyword == KeywordScan(text, position, position)
         IN  IF keyword.tag = "Ok" THEN keyword
             ELSE IF Utf8Len(CurrentChar(text, position)) > 1
             THEN LexErr("panic", "called Option::unwrap on a None value", position)
             ELSE LET e == VariableEnd(text, position)
                  IN  LexOk([Tok("ID") EXCEPT !.s = SubSeq(text, position + 1, e + 1)], e)

\* the token at the current character, before the position moves past it
\* (lexer.rs:214-242)
TokenAt(text, position) ==
    LET c == CurrentChar(text, position)
        smiley == Smiley(text, position)
    IN  IF IsDigit(c)
        THEN LET e == IntegerEnd(text, position)
             IN  LexOk([Tok("Integer") EXCEPT !.n = DigitsValue(SubSeq(text, position + 1, e + 1))], e)
        ELSE IF c \in DOMAIN SymbolKinds
        THEN LexOk(Tok(SymbolKinds[c]), position)
        ELSE IF c = 58 /\ smiley.tag = "Ok"
        THEN smiley
        ELSE KeywordOrString(text, position)

\* Lexer::get_next_token (lexer.rs:205-251): the results it can have. The
\* text.len() - 1 of an empty text overflows: the debug build panics, the
\* release build wraps and goes on to find no character.
GetNextTokenOutcomes(text, position) ==
    IF text = <<>>
    THEN {LexErr("panic", "attempt to subtract with overflow", position),
          LexErr("Err", "No suitable token.", position)}
    ELSE IF position > ByteLen(text) - 1
    THEN {LexOk(EOFTok, position)}
    ELSE IF CurrentChar(text, position) = NoChar
    THEN {LexErr("Err", "No suitable token.", position)}
    ELSE LET t == TokenAt(text, position)
         IN  IF t.tag = "Ok"
             THEN {LexOk(t.token, SkipWhitespace(text, t.position + 1))}
             ELSE {t}

\* one call of get_next_token by the owner of the tokenizer
GetNextToken ==
    /\ lexed.tag # "panic"
    /\ \E o \in GetNextTokenOutcomes(lexer.text, lexer.position) :
          /\ lexer' = [lexer EXCEPT !.position = o.position]
          /\ lexed' = [tag |-> o.tag, token |-> o.token, msg |-> o.msg]
    /\ UNCHANGED <<parser, parsed, interpreterVars>>

\* Lexer::new(text) (lexer.rs:63-83)
InitLexer ==
    /\ program = 1 /\ Constructed(TRUE) /\ phase = 1 /\ strict_outcome = NoOutcome
    /\ \E n \in 0 .. MaxTextLen : \E text \in [1 .. n -> LexChars] :
          lexer = [text |-> text, position |-> 0]
    /\ lexed = [tag |-> "none"]
    /\ parser = [at |-> "unused"]
    /\ parsed = [tag |-> "none"]

SpecLexer == InitLexer /\ [][GetNextToken]_vars


--------------------------------------------------------------------------
(* The parser of a function declaration: Parser::new and the arm           *)
(* Keyword::Function of Parser::statement (parser.rs:98-122, 302-325), with *)
(* inner_block_statement (parser.rs:370-382) for a body without a          *)
(* statement. The texts are `funny f(` + a parameter text + `) avo cado`.  *)

\* the longest parameter text of the model
MaxParamChars == 3

\* the parameter texts, of the characters a b , blank
ParamTexts == UNION {[1 .. n -> {97, 98, 44, 32}] : n \in 0 .. MaxParamChars}

\* `funny f(`, and `) avo cado` with a blank or a line end before avo
DeclPrefix == <<102, 117, 110, 110, 121, 32, 102, 40>>
DeclSuffixes ==
    {<<41, 32, 97, 118, 111, 32, 99, 97, 100, 111>>,
     <<41, 10, 97, 118, 111, 32, 99, 97, 100, 111>>}

\* the results of statement(): a node, Error::UnexpectedToken, and what a
\* failed get_next_token leaves, Error::InvalidSyntax by the ? or its panic
ParseOk(n) == [tag |-> "Ok", node |-> n]
UnexpectedToken(found, expected) ==
    [tag |-> "Err", error |-> "UnexpectedToken", found |-> found, expected |-> expected]
LexerFailed(o) ==
    [tag |-> o.tag, error |-> IF o.tag = "Err" THEN "InvalidSyntax" ELSE "panic",
     msg |-> o.msg]

\* Parser::consume_token (parser.rs:107-110) followed by the step `at` of
\* the parser p; an error of the tokenizer ends statement() by the ?
ConsumeToken(p, at) ==
    \E o \in GetNextTokenOutcomes(lexer.text, lexer.position) :
       /\ lexer' = [lexer EXCEPT !.position = o.position]
       /\ lexed' = [tag |-> o.tag, token |-> o.token, msg |-> o.msg]
       /\ CASE o.tag = "Ok" ->
                 /\ parser' = [p EXCEPT !.current_token = o.token, !.at = at]
                 /\ parsed' = parsed
            [] OTHER ->
                 /\ parser' = [p EXCEPT !.at = IF o.tag = "Err" THEN "done" ELSE "panic"]
                 /\ parsed' = LexerFailed(o)

\* the Err of Parser::consume (parser.rs:117-120) and of the other matches
Unexpected(expected) ==
    /\ parser' = [parser EXCEPT !.at = "done"]
    /\ parsed' = UnexpectedToken(parser.current_token, expected)
    /\ UNCHANGED <<lexer, lexed>>

\* Parser::consume(token) (parser.rs:112-122)
Consume(kind, p, at) ==
    IF parser.current_token = Tok(kind) \/ parser.current_token = KeywordTok(kind)
    THEN ConsumeToken(p, at)
    ELSE Unexpected(kind)

\* Parser::new (parser.rs:98-105): get_next_token().unwrap_or(Token::EOF)
ParserNew ==
    /\ parser.at = "new"
    /\ \E o \in GetNextTokenOutcomes(lexer.text, lexer.position) :
          /\ lexer' = [lexer EXCEPT !.position = o.position]
          /\ lexed' = [tag |-> o.tag, token |-> o.token, msg |-> o.msg]
          /\ IF o.tag = "panic"
             THEN parser' = [parser EXCEPT !.at = "panic"] /\ parsed' = LexerFailed(o)
             ELSE /\ parser' = [parser EXCEPT !.at = "statement",
                                   !.current_token = IF o.tag = "Ok" THEN o.token ELSE EOFTok]
                  /\ parsed' = parsed
    /\ UNCHANGED interpreterVars

\* Keyword::Function => self.consume_token()? (parser.rs:302-303)
StatementFunction ==
    /\ parser.at = "statement"
    /\ parser.current_token = KeywordTok("Function")
    /\ ConsumeToken(parser, "name")
    /\ UNCHANGED interpreterVars

\* the name of the function (parser.rs:304-310)
FunctionName ==
    /\ parser.at = "name"
    /\ IF parser.current_token.kind = "ID"
       THEN ConsumeToken([parser EXCEPT !.func_name = parser.current_token.s], "open")
       ELSE Unexpected("ID for FunctionName")
    /\ UNCHANGED interpreterVars

\* self.consume(Token::ParentheseOpen)? (parser.rs:311-312)
FunctionOpen ==
    /\ parser.at = "open"
    /\ Consume("ParentheseOpen", parser, "parameters")
    /\ UNCHANGED interpreterVars

\* one turn of `while let Token::ID{string} = self.current_token.clone()`
\* (parser.rs:313-318)
FunctionParameter ==
    /\ parser.at = "parameters"
    /\ parser.current_token.kind = "ID"
    /\ ConsumeToken([parser EXCEPT
                        !.parameters = Append(@, parser.current_token.s)],
                    "parameters")
    /\ UNCHANGED interpreterVars

\* the loop is over: self.consume(Token::ParentheseClose)? (parser.rs:319)
FunctionClose ==
    /\ parser.at = "parameters"
    /\ parser.current_token.kind # "ID"
    /\ Consume("ParentheseClose", parser, "block")
    /\ UNCHANGED interpreterVars

\* inner_block_statement: the optional line end (parser.rs:371-373)
BlockEndLine ==
    /\ parser.at = "block"
    /\ parser.current_token = Tok("EndLine")
    /\ ConsumeToken(parser, "avo")
    /\ UNCHANGED interpreterVars

\* self.consume(Token::ReservedKeyword(Keyword::Avo))? (parser.rs:374)
BlockAvo ==
    /\ \/ parser.at = "block" /\ parser.current_token # Tok("EndLine")
       \/ parser.at = "avo"
    /\ Consume("Avo", parser, "statements")
    /\ UNCHANGED interpreterVars

\* statement_list at a token that starts no statement, so that statement()
\* is the empty statement (parser.rs:349-352), consume(Cado), and the node
\* (parser.rs:375-381, 320-324)
BlockCado ==
    /\ parser.at = "statements"
    /\ parser.current_token.kind \notin {"ID", "EndLine"}
    /\ parser.current_token.keyword
          \notin {"If", "Equals", "Function", "Loop", "AssignPrefix", "Return"}
    /\ IF parser.current_token = KeywordTok("Cado")
       THEN \E o \in GetNextTokenOutcomes(lexer.text, lexer.position) :
               /\ lexer' = [lexer EXCEPT !.position = o.position]
               /\ lexed' = [tag |-> o.tag, token |-> o.token, msg |-> o.msg]
               /\ parser' = [parser EXCEPT
                                !.at = IF o.tag = "panic" THEN "panic" ELSE "done",
                                !.current_token = IF o.tag = "Ok" THEN o.token ELSE @]
               /\ parsed' = IF o.tag = "Ok"
                            THEN ParseOk(Decl(parser.func_name, parser.parameters,
                                              Blk(<<NoOp>>)))
                            ELSE LexerFailed(o)
       ELSE Unexpected("Cado")
    /\ UNCHANGED interpreterVars

\* Lexer::new(text), and the parser before Parser::new
InitParser ==
    /\ program = 1 /\ Constructed(TRUE) /\ phase = 1 /\ strict_outcome = NoOutcome
    /\ \E mid \in ParamTexts, suffix \in DeclSuffixes :
          lexer = [text |-> DeclPrefix \o mid \o suffix, position |-> 0]
    /\ lexed = [tag |-> "none"]
    /\ parser = [at |-> "new", current_token |-> EOFTok, func_name |-> <<>>,
                 parameters |-> <<>>]
    /\ parsed = [tag |-> "none"]

NextParser ==
    \/ ParserNew \/ StatementFunction \/ FunctionName \/ FunctionOpen
    \/ FunctionParameter \/ FunctionClose
    \/ BlockEndLine \/ BlockAvo \/ BlockCado

SpecParser == InitParser /\ [][NextParser]_vars

--------------------------------------------------------------------------
(* The claims.                                                             *)

\* the gate has returned the abort signal for a wrong answer: the error is
\* on its way to the driver and the answer is still stored
GateAborted ==
    /\ pc \in {"ret", "done"}
    /\ returned.tag = "DisturbedWorker"
    /\ user_answer # NoAnswer

\* the user calls whose body is being evaluated
PendingCalls == Cardinality({i \in DOMAIN kont : kont[i].k = "CallBody"})

\* C1: with the gate enabled every completed visit, whatever its node,
\* increases the counter exactly once, by 1..9, before the next visit
\* completes: the increments are the completed visits (plus the one of a
\* visit waiting for its answer or aborted by it), and each is a step of
\* 1..9.
C1_EveryVisitIncrements ==
    [][~strict_work =>
          /\ nincs' = ncomplete'
                      + (IF pc' \in {"ask", "check"} \/ GateAborted' THEN 1 ELSE 0)
          /\ nincs' # nincs =>
                /\ nincs' = nincs + 1
                /\ stress_level' - stress_level \in 1 .. 9]_vars

\* C2: with the gate enabled an answer is requested exactly by a
\* consultation that finds the counter at or above 1,000,000, the elapsed
\* time above the cooldown and a node that is not a bare Value; no other
\* step requests one.
C2_AsksIffTerminalCooledNonLiteral ==
    [][(pc' = "ask" /\ pc # "ask") <=>
          /\ pc = "gate" /\ ~strict_work
          /\ stress_level' >= 1000000
          /\ elapsed' > cooldown
          /\ node.type # "Value"]_vars

\* a question asked at both thresholds: the counter just at 1,000,000, the
\* elapsed time just above the cooldown
C2_Witness ==
    /\ pc = "ask" /\ stress_level >= 1000000
    /\ elapsed = cooldown + 1 /\ node.type = "Assign"

\* C3: an answer equal to the value of the node resets the counter to zero,
\* draws a new cooldown, restarts the elapsed time, and the visit returns
\* the value of the node, the evaluation state untouched.
C3_RightAnswerResets ==
    [][(pc = "check" /\ user_answer = result) =>
          /\ stress_level' = 0
          /\ cooldown' \in 1000000 .. 999999999
          /\ elapsed' = 0
          /\ pc' = "ret" /\ node' = node /\ returned' = Ok(result)
          /\ kont' = kont /\ call_stack' = call_stack /\ out' = out]_vars

\* the visit of `1 + 2` has returned 3 after the right answer
C3_Witness ==
    /\ pc = "ret" /\ node.type = "BinOp" /\ returned = Ok(IntV(3))
    /\ stress_level = 0 /\ cooldown >= 1000000 /\ elapsed = 0
    /\ kont # <<>>

\* C4: after a wrong answer nothing is evaluated any more: no visit is
\* entered, no answer or input is requested, nothing is shouted, and no
\* frame that remains changes its variables or functions.
C4_AbortStopsEvaluation ==
    [][GateAborted =>
          /\ pc' \in {"ret", "done"}
          /\ returned' = returned
          /\ user_answer' = user_answer
          /\ out' = out /\ input_log' = input_log
          /\ Len(call_stack') <= Len(call_stack)
          /\ \A i \in 1 .. Len(call_stack') : call_stack'[i] = call_stack[i]]_vars

\* a wrong answer given two calls deep, with statements left in both bodies
C4_Witness ==
    /\ GateAborted /\ pc = "ret" /\ PendingCalls = 2
    /\ program = 2 /\ node.type = "If"

\* C5: when the abort signal ends an evaluation, every pending call frame
\* has been popped: the call stack holds only the root frame.
C5_AbortPopsFrames ==
    (pc = "done" /\ GateAborted) => Len(call_stack) = 1

\* C6: the call stack is never empty, its depth is one more than the number
\* of calls whose body is running (unless the abort signal is unwinding),
\* and a call that ends by fall-through or by an early return leaves the
\* call stack exactly as it found it.
C6_CallsBalanced ==
    [][/\ Len(call_stack') >= 1
       /\ returned'.tag # "DisturbedWorker" =>
             Len(call_stack') = 1 + PendingCalls'
       /\ (/\ pc = "ret" /\ kont # <<>> /\ Head(kont).k = "CallBody"
           /\ returned.tag \in {"Ok", "HackyReturn"}) =>
             call_stack' = Head(kont).caller_stack]_vars

\* the call of g inside f has returned 7 by its early return: the stack is
\* the root frame and the frame of f again
C6_Witness ==
    /\ pc = "ret" /\ node.type = "FunctionCall" /\ returned = Ok(IntV(7))
    /\ PendingCalls = 1 /\ Len(call_stack) = 2
    /\ DOMAIN Top(call_stack).symbol_table = {"x"}

\* C7: in strict mode the counter, the previous mood and the cooldown keep
\* their initial values, no answer is requested, and every consultation
\* returns success at once.
C7_StrictGateNeverFires ==
    [][strict_work =>
          /\ stress_level' = 0 /\ prev_mood' = "Happy" /\ cooldown' = 20
          /\ user_answer' = NoAnswer
          /\ pc' \notin {"ask", "check"}
          /\ pc = "gate" => (pc' = "ret" /\ returned' = Ok(result))]_vars

\* a strict run of the program with the two functions has finished
C7_Witness ==
    /\ strict_work /\ pc = "done" /\ report.kind = "ok"
    /\ program = 2 /\ ncomplete >= 10

\* C8: a run with the gate enabled in which every question was answered
\* correctly ends as the strict run of the same program: the same frames,
\* the same shouted texts, the same result or fatal condition.
C8_GateTransparent ==
    (phase = 2 /\ pc \in {"done", "panic"} /\ user_answer = NoAnswer) =>
        Outcome = strict_outcome

\* the second run has answered a question and has finished with an output
C8_Witness ==
    /\ phase = 2 /\ pc = "done" /\ user_answer = NoAnswer
    /\ cooldown # InitialCooldown /\ out # <<>> /\ program = 2

\* C9: a propagating return leaves every pending visit of the body without
\* evaluating anything, and the nearest pending call turns it into its
\* value; so the program with the two functions binds b to 7 and shouts
\* it, and the recursive program, which returns from inside a loop, binds
\* c to 0.
C9_ReturnAbsorbedAtCall ==
    [][/\ (pc = "ret" /\ returned.tag = "HackyReturn" /\ PendingCalls > 0) =>
             /\ pc' = "ret" /\ kont' = Tail(kont)
             /\ IF Head(kont).k = "CallBody"
                THEN returned' = Ok(returned.val) /\ node' = Head(kont).node
                ELSE returned' = returned
       /\ (pc' = "done" /\ program = 2 /\ report'.kind = "ok") =>
             /\ call_stack'[1].symbol_table["b"] = IntV(7)
             /\ out' = <<[level |-> 2, text |-> <<55>>]>>
       /\ (pc' = "done" /\ program = 5 /\ report'.kind = "ok") =>
             call_stack'[1].symbol_table["c"] = IntV(0)]_vars

\* the return of 7 is leaving the `wenn` inside g, called from f
C9_Witness ==
    /\ pc = "ret" /\ returned = HackyReturn(IntV(7))
    /\ PendingCalls = 2 /\ kont # <<>>
    /\ Head(kont).k = "IfExecution"

\* C10: a return outside every call leaves the pending visits without
\* evaluating anything and the driver reports its value as thrown; the
\* process does not panic.
C10_TopLevelReturnReported ==
    [][(pc = "ret" /\ returned.tag = "HackyReturn" /\ PendingCalls = 0) =>
          /\ IF kont = <<>>
             THEN /\ pc' = "done"
                  /\ report' = [kind |-> "throw", val |-> returned.val, msg |-> ""]
             ELSE pc' = "ret" /\ returned' = returned /\ kont' = Tail(kont)
          /\ call_stack' = call_stack /\ out' = out]_vars

\* `wirf a` at top level: 1 is reported and `a = 2` has not run
C10_Witness ==
    /\ pc = "done" /\ program = 3
    /\ report = [kind |-> "throw", val |-> IntV(1), msg |-> ""]
    /\ call_stack[1].symbol_table["a"] = IntV(1)

\* the visit of a child has returned a value to the step k of its parent
ReturnedTo(k) ==
    /\ pc = "ret" /\ kont # <<>> /\ Head(kont).k = k
    /\ returned.tag = "Ok"

\* C11: a loop evaluates its condition first and again after every run of
\* the body; a condition result of true runs the body once, the first false
\* ends the loop with the none value and without the body; so the counting
\* loop leaves i at its limit.
C11_LoopRunsWhileTrue ==
    [][/\ (pc = "eval" /\ node.type = "Loop") =>
             (pc' = "eval" /\ node' = node.condition)
       /\ (ReturnedTo("LoopCondition") /\ returned.val = BoolV(TRUE)) =>
             /\ pc' = "eval" /\ node' = Head(kont).node.execution
             /\ Head(kont').k = "LoopExecution"
       /\ (ReturnedTo("LoopCondition") /\ returned.val = BoolV(FALSE)) =>
             /\ pc' = "gate" /\ node' = Head(kont).node /\ result' = NoneV
             /\ kont' = Tail(kont) /\ call_stack' = call_stack
       /\ ReturnedTo("LoopExecution") =>
             /\ pc' = "eval" /\ node' = Head(kont).node.condition
             /\ Head(kont').k = "LoopCondition"
       /\ (pc' = "done" /\ program = 4 /\ report'.kind = "ok") =>
             call_stack'[1].symbol_table["i"] = IntV(LoopCount)]_vars

\* `schleif x kleina ..` with x = 3 has ended on its first condition: the
\* body has not run, x is still 3
C11_Witness ==
    /\ program = 7 /\ pc = "gate" /\ node.type = "Loop" /\ result = NoneV
    /\ node.condition.type = "Compare"
    /\ Top(call_stack).symbol_table = [k \in {"x"} |-> IntV(3)]

\* C12: a condition of a loop that is not a boolean ends the evaluation
\* with a fatal condition: the visit of the loop returns an error or the
\* process panics, and nothing after the loop is evaluated.
C12_NonBooleanLoopConditionFatal ==
    [][(ReturnedTo("LoopCondition") /\ returned.val.t # "Boolean") =>
          \/ pc' = "panic"
          \/ pc' = "ret" /\ returned'.tag \notin {"Ok", "HackyReturn"}]_vars

\* C13: the abort signal comes from a wrong answer to the gate only: when
\* a visit has returned it, the gate is enabled and holds the answer it has
\* rejected; in strict mode no visit returns it.
C13_AbortOnlyFromGate ==
    returned.tag = "DisturbedWorker" =>
        (~strict_work /\ user_answer # NoAnswer)

\* C14: a call with a wrong number of arguments panics with the invalid
\* argument count at once: no argument is visited, no frame is pushed, no
\* statement of the body is visited, and nothing runs after the panic.
C14_ArgumentCountChecked ==
    [][/\ (/\ pc = "eval" /\ IsUserCall(node)
           /\ node.function.name \in DOMAIN Top(call_stack).function_table
           /\ Len(Top(call_stack).function_table[node.function.name].parameters)
                 # Len(node.parameters)) =>
             /\ pc' = "panic" /\ report'.msg = "Invalid argument count!"
             /\ call_stack' = call_stack /\ kont' = kont /\ out' = out
       /\ pc # "panic"]_vars

\* k, declared with two parameters, was called with three arguments after
\* a correct call
C14_Witness ==
    /\ program = 8 /\ pc = "panic" /\ report.msg = "Invalid argument count!"
    /\ Len(node.parameters) = 3 /\ Len(call_stack) = 1
    /\ "q" \in DOMAIN call_stack[1].symbol_table

\* C15: the arguments of a user call are visited first to last with the
\* call stack as the caller has it; the frame of the callee is pushed on
\* top of it by the return of the last argument, holds exactly the
\* parameters, the last one bound to the value just returned; so
\* k(p, p + 1) with p = 5 binds a to 5 and b to 6 and yields -1.
C15_ArgumentsInCallerFrame ==
    [][/\ (/\ pc = "eval" /\ IsUserCall(node) /\ node.parameters # <<>>
           /\ pc' # "panic") =>
             /\ pc' = "eval" /\ node' = node.parameters[1]
             /\ call_stack' = call_stack
       /\ ReturnedTo("CallParameter") =>
             LET f == Head(kont)
                 n == Len(f.node.parameters)
             IN  IF f.i < n
                 THEN /\ pc' = "eval" /\ node' = f.node.parameters[f.i + 1]
                      /\ call_stack' = call_stack
                 ELSE /\ pc' = "eval" /\ node' = f.decl.execution_block
                      /\ Len(call_stack') = Len(call_stack) + 1
                      /\ SubSeq(call_stack', 1, Len(call_stack)) = call_stack
                      /\ DOMAIN Top(call_stack').symbol_table
                            = {f.decl.parameters[j] : j \in 1 .. n}
                      /\ Top(call_stack').symbol_table[f.decl.parameters[n]]
                            = returned.val
       /\ (program = 8 /\ Len(call_stack') = 2) =>
             \A x \in DOMAIN Top(call_stack').symbol_table :
                Top(call_stack').symbol_table[x] = IF x = "a" THEN IntV(5) ELSE IntV(6)
       /\ (program = 8 /\ "q" \in DOMAIN call_stack'[1].symbol_table) =>
             call_stack'[1].symbol_table["q"] = IntV(0 - 1)]_vars

\* the frame of k has just been pushed with a = 5 and b = 6
C15_Witness ==
    /\ program = 8 /\ pc = "eval" /\ node.type = "Block"
    /\ Len(call_stack) = 2
    /\ Top(call_stack).symbol_table = [x \in {"a", "b"} |-> IF x = "a" THEN IntV(5) ELSE IntV(6)]

\* C16: the visit of a declaration whose name is in the function table of
\* the current frame, declared there or inherited from the caller, panics
\* with the redeclaration error; and no step after which evaluation
\* continues changes or removes a binding of a function table.
C16_RedeclarationFatal ==
    [][/\ (/\ pc = "eval" /\ node.type = "FunctionDeclaration"
           /\ node.name \in DOMAIN Top(call_stack).function_table) =>
             (pc' = "panic" /\ report'.msg = "Function redeclared!")
       /\ pc' # "panic" =>
             \A i \in DOMAIN call_stack \cap DOMAIN call_stack' :
                \A name \in DOMAIN call_stack[i].function_table :
                   /\ name \in DOMAIN call_stack'[i].function_table
                   /\ call_stack'[i].function_table[name]
                         = call_stack[i].function_table[name]]_vars

\* the body of h declares h, which its frame has inherited from the caller
C16_Witness ==
    /\ program = 9 /\ pc = "panic" /\ report.msg = "Function redeclared!"
    /\ Len(call_stack) = 2 /\ node.name = "h"
    /\ DOMAIN Top(call_stack).symbol_table = {}

\* C17: the frame a call pushes starts with the function table of the
\* caller's frame, and when the call returns the caller's function table is
\* what it was at the call, whatever the callee has declared; so after o(),
\* whose body declares and calls n, the root frame knows o and h only.
C17_FunctionTableCopied ==
    [][/\ Len(call_stack') = Len(call_stack) + 1 =>
             Top(call_stack').function_table = Top(call_stack).function_table
       /\ (/\ pc = "ret" /\ kont # <<>> /\ Head(kont).k = "CallBody"
           /\ returned.tag \in {"Ok", "HackyReturn"}) =>
             /\ Len(call_stack') = Len(call_stack) - 1
             /\ Top(call_stack').function_table
                   = Top(Head(kont).caller_stack).function_table
       /\ (program = 9 /\ Len(call_stack') = 1) =>
             "n" \notin DOMAIN call_stack'[1].function_table]_vars

\* o() has returned: its frame, in which n was declared and called, is gone
C17_Witness ==
    /\ program = 9 /\ pc = "ret" /\ returned.tag = "Ok"
    /\ node.type = "FunctionCall" /\ node.function.name = "o"
    /\ Len(call_stack) = 1
    /\ DOMAIN call_stack[1].function_table = {"o", "h"}

\* C20: with both operands evaluated, less and greater yield the boolean of
\* the natural ordering when the operands are of one variant and end the
\* evaluation with a fatal condition when they are not; equality of
\* operands of different variants yields false.
C20_OrderingOfUnlikeVariantsFatal ==
    [][ReturnedTo("CompareRight") =>
          LET l == Head(kont).v
              r == returned.val
              ct == Head(kont).node.compare_type
          IN  IF ct = "Equals"
              THEN l.t # r.t => (pc' = "ret" /\ returned' = Ok(BoolV(FALSE)))
              ELSE IF l.t = r.t
              THEN /\ pc' = "ret"
                   /\ returned' = Ok(BoolV(IF ct = "Less" THEN ValueLess(l, r)
                                                       ELSE ValueLess(r, l)))
              ELSE \/ pc' = "panic"
                   \/ pc' = "ret" /\ returned'.tag \notin {"Ok", "HackyReturn"}]_vars

\* C21: the frame a call pushes holds exactly the parameters of the callee
\* as its variables, on top of the unchanged frames of the caller; a
\* variable is read from the table of the last frame alone, and a name
\* that is not in it panics with the unknown variable, whatever the frames
\* below hold; and no step changes the variable table of a frame below the
\* last one; so after g(u), whose body assigns u and v, the program has u
\* = 1 and no v, and r, which reads u, panics.
C21_VariablesPerFrame ==
    [][/\ Len(call_stack') = Len(call_stack) + 1 =>
             /\ SubSeq(call_stack', 1, Len(call_stack)) = call_stack
             /\ \E f \in {Head(kont')} :
                   DOMAIN call_stack'[Len(call_stack')].symbol_table
                      = {f.decl.parameters[j] : j \in DOMAIN f.decl.parameters}
       /\ (pc = "eval" /\ node.type = "Variable") =>
             LET table == call_stack[Len(call_stack)].symbol_table
             IN  IF node.name \in DOMAIN table
                 THEN pc' = "gate" /\ result' = table[node.name]
                 ELSE pc' = "panic" /\ report'.msg = "Unknown variable name"
       /\ \A i \in 1 .. Len(call_stack) - 1 :
             i \in DOMAIN call_stack' =>
                call_stack'[i].symbol_table = call_stack[i].symbol_table
       /\ (program = 10 /\ Len(call_stack) = 2 /\ pc' = "panic") =>
             /\ "u" \in DOMAIN call_stack[1].symbol_table
             /\ call_stack'[1].symbol_table
                   = [x \in {"u", "w"} |-> IF x = "u" THEN IntV(1) ELSE IntV(2)]]_vars

\* r reads u, which the program alone has: its frame has no variable, the
\* program has u = 1 and w = 2 after g has assigned u = 9 and v in its frame
C21_Witness ==
    /\ program = 10 /\ pc = "panic" /\ report.msg = "Unknown variable name"
    /\ node = Var("u") /\ Len(call_stack) = 2
    /\ call_stack[2].symbol_table = EmptyMap
    /\ call_stack[1].symbol_table
          = [x \in {"u", "w"} |-> IF x = "u" THEN IntV(1) ELSE IntV(2)]

\* C22: an answer to the gate that is no line, a line the parser rejects,
\* or a line whose first statement is not an assignment of a literal, is
\* the none value; the comparison that follows accepts it when the value
\* of the node is the none value (the counter is reset to zero, a cooldown
\* is drawn, the visit returns the value with the evaluation state as it
\* was), and returns the abort signal when the value is any other.
C22_UnreadAnswerIsNone ==
    [][/\ (/\ pc = "ask"
           /\ \/ typed'.line = "None"
              \/ typed'.parse = "Err"
              \/ typed'.node.children[1].type # "Assign"
              \/ typed'.node.children[1].right.type # "Value") =>
             (pc' = "check" /\ user_answer' = NoneV)
       /\ (pc = "check" /\ user_answer = NoneV) =>
             IF result = NoneV
             THEN /\ stress_level' = 0 /\ cooldown' \in 1000000 .. 999999999
                  /\ pc' = "ret" /\ returned' = Ok(NoneV) /\ node' = node
                  /\ kont' = kont /\ call_stack' = call_stack
             ELSE /\ pc' = "ret" /\ returned' = DisturbedWorker
                  /\ stress_level' = stress_level]_vars

\* the answer `x = 1 + 2` to the question about an assignment is being
\* compared: it has been read as the none value
C22_Witness ==
    /\ pc = "check" /\ node.type = "Assign" /\ result = NoneV
    /\ typed.line = "Some" /\ typed.parse = "Ok"
    /\ typed.node.children[1].type = "Assign"
    /\ typed.node.children[1].right.type = "BinOp"
    /\ user_answer = NoneV

\* C18: for every text, the empty one and those with characters of more
\* than one byte included, a call of get_next_token with the position past
\* the last character returns the end-of-input token, without an error and
\* without moving the position.
C18_EndOfInputIdempotent ==
    [][lexer.position >= Len(lexer.text) =>
          /\ lexed' = [tag |-> "Ok", token |-> EOFTok, msg |-> ""]
          /\ lexer' = lexer]_vars

\* C19: a declaration whose parameter list is two names separated by a
\* comma, `funny f(x,y) avo cado`, parses without an error into the
\* FunctionDeclaration of f with the parameters x and y in this order.
C19_CommaSeparatedParameters ==
    \A x, y \in {<<97>>, <<98>>} :
       (/\ parser.at \in {"done", "panic"}
        /\ lexer.text \in {DeclPrefix \o x \o <<44>> \o y \o suffix :
                              suffix \in DeclSuffixes}) =>
          parsed = ParseOk(Decl(<<102>>, <<x, y>>, Blk(<<NoOp>>)))

====
